---- MODULE Spec2Model ----
(***************************************************************************)
(* zpy.image: seg_to_annotations and binary_mask_to_rle; zpy.client: init. *)
(*                                                                         *)
(* Channel intensities are kept in units of 1/255, contour coordinates in  *)
(* units of 1/100 pixel, areas in units of 1/20000 square pixel and the     *)
(* normalised (float) values as pairs <<numerator, denominator>>, so that  *)
(* every number of the model is an integer.  The library calls (numpy,     *)
(* skimage, scipy.ndimage, shapely) are modelled by the algorithms they    *)
(* run; the winding of a traced contour is left open.                      *)
(***************************************************************************)
EXTENDS Integers, Sequences, FiniteSets, TLC

\* ---------------------------------------------------------------- bounds
\* Every raster of at most MaxPixels pixels is an input.
MaxPixels == 4
\* max_categories ranges over 1..MaxCategories (and the default).
MaxCategories == 3

\* ------------------------------------------------------- program constants
DefaultMaxCategories == 300
PadWidth == 1

\* ------------------------------------------------------------- utilities
Min(a, b) == IF a <= b THEN a ELSE b
Max(a, b) == IF a >= b THEN a ELSE b
Abs(a) == IF a >= 0 THEN a ELSE 0 - a
Range(s) == {s[k] : k \in DOMAIN s}
SetMin(S) == CHOOSE m \in S : \A n \in S : m <= n
SetMax(S) == CHOOSE m \in S : \A n \in S : m >= n

RECURSIVE SeqSum(_)
SeqSum(s) == IF s = <<>> THEN 0 ELSE Head(s) + SeqSum(Tail(s))

\* The pixel positions (row, col) of an h x w array.
Pix(h, w) == (0 .. (h - 1)) \X (0 .. (w - 1))

\* ------------------------------------------------------------ the inputs
\* Channel values as stored in the file (8-bit).
Black == <<0, 0, 0>>
Blue == <<0, 0, 255>>
Green == <<0, 255, 0>>
FileColours == {Black, Blue, Green}

Shapes == {hw \in (1 .. MaxPixels) \X (1 .. MaxPixels) : hw[1] * hw[2] <= MaxPixels}

MkFile(kind, h, w, px) == [kind |-> kind, h |-> h, w |-> w, px |-> px]

\* Every 3-channel raster of at most MaxPixels pixels over FileColours.
RgbFiles ==
    UNION {{MkFile("rgb", hw[1], hw[2], px) : px \in [Pix(hw[1], hw[2]) -> FileColours]} :
           hw \in Shapes}

\* A raster that is all Black except the rectangle rows r0..r1, cols c0..c1.
RectPx(h, w, r0, r1, c0, c1, colour) ==
    [p \in Pix(h, w) |->
        IF p[1] >= r0 /\ p[1] <= r1 /\ p[2] >= c0 /\ p[2] <= c1 THEN colour ELSE Black]

\* 10x10 background with one 4x4 square at offset (2,2).
SquareFile(colour) == MkFile("rgb", 10, 10, RectPx(10, 10, 2, 5, 2, 5, colour))
SquareFiles == {SquareFile(Blue), SquareFile(Green)}
\* 3x3 ring of one colour around a background pixel.
RingFile == MkFile("rgb", 3, 3, [p \in Pix(3, 3) |-> IF p = <<1, 1>> THEN Black ELSE Green])
\* 5x5 ring around a cross-shaped hole of another colour.
CrossHoleFile ==
    MkFile("rgb", 5, 5,
           [p \in Pix(5, 5) |->
               IF Abs(p[1] - 2) + Abs(p[2] - 2) <= 1 THEN Blue ELSE Green])
\* Non-square rasters filled with one colour.
WideFile == MkFile("rgb", 2, 5, [p \in Pix(2, 5) |-> Green])
TallFile == MkFile("rgb", 5, 2, [p \in Pix(5, 2) |-> Blue])
\* 4x4 raster with two regions of one colour: a bracket along the top, right
\* and bottom, and a T on the left whose stem enters the bracket's opening.
BracketPx == {<<0, 2>>, <<0, 3>>, <<1, 3>>, <<2, 3>>, <<3, 3>>, <<3, 2>>}
StemPx == {<<1, 0>>, <<2, 0>>, <<3, 0>>, <<2, 1>>}
BracketFile ==
    MkFile("rgb", 4, 4, [p \in Pix(4, 4) |-> IF p \in BracketPx \cup StemPx THEN Green ELSE Black])
NamedFiles == SquareFiles \cup {RingFile, CrossHoleFile, WideFile, TallFile, BracketFile}

\* Files that do not hold a 3-channel raster: one imread cannot decode, 2-D
\* gray rasters, 2-channel rasters; and 4-channel ones, whose alpha is cut.
CorruptFile == MkFile("corrupt", 0, 0, <<>>)
GrayFiles == {MkFile("gray", 1, 2, [p \in Pix(1, 2) |-> <<v[p[2] + 1]>>]) :
              v \in {<<0, 0>>, <<0, 255>>, <<255, 0>>}}
TwoChannelFiles == {MkFile("ga", 1, 2, [p \in Pix(1, 2) |-> <<v[p[2] + 1], 255>>]) :
                    v \in {<<0, 0>>, <<0, 255>>}}
RgbaFiles == {MkFile("rgba", 1, 2, [p \in Pix(1, 2) |-> c[p[2] + 1] \o <<255>>]) :
              c \in {<<Black, Green>>, <<Blue, Blue>>, <<Black, Black>>}}

Files == RgbFiles \cup NamedFiles \cup {CorruptFile} \cup GrayFiles
             \cup TwoChannelFiles \cup RgbaFiles

\* ------------------------------------------------------------ open_image
NoneImg == [none |-> TRUE, ndim |-> 0, h |-> 0, w |-> 0, px |-> <<>>]
MkImg(ndim, h, w, px) == [none |-> FALSE, ndim |-> ndim, h |-> h, w |-> w, px |-> px]

\* img = img[:, :, :3] when there are more than 3 channels.
StripAlpha(c) == IF Len(c) > 3 THEN SubSeq(c, 1, 3) ELSE c

\* img.max(), taken after the alpha channel is cut.
ImgMax(f) == SetMax(UNION {Range(StripAlpha(f.px[p])) : p \in DOMAIN f.px})

\* np.divide(img, 255.0) when img.max() > 2.0; the result in units of 1/255.
Normalise(f, c) == IF ImgMax(f) > 2 THEN c ELSE [k \in DOMAIN c |-> 255 * c[k]]

open_image(f) ==
    IF f.kind = "corrupt" THEN NoneImg
    ELSE IF f.kind = "gray" THEN MkImg(2, f.h, f.w, f.px)
    ELSE MkImg(3, f.h, f.w, [p \in DOMAIN f.px |-> Normalise(f, StripAlpha(f.px[p]))])

\* --------------------------------------------------------- np.unique(axis=0)
RECURSIVE LexLess(_, _)
LexLess(a, b) ==
    IF a = <<>> \/ b = <<>> THEN a = <<>> /\ b # <<>>
    ELSE IF Head(a) # Head(b) THEN Head(a) < Head(b)
    ELSE LexLess(Tail(a), Tail(b))

\* Mutant: the rows in descending order.
RECURSIVE SortRowsDescending(_)
SortRowsDescending(S) ==
    IF S = {} THEN <<>>
    ELSE LET m == CHOOSE a \in S : \A b \in S \ {a} : LexLess(b, a)
         IN <<m>> \o SortRowsDescending(S \ {m})

RECURSIVE SortRows(_)
SortRows(S) ==
    IF S = {} THEN <<>>
    ELSE LET m == CHOOSE a \in S : \A b \in S \ {a} : LexLess(a, b)
         IN <<m>> \o SortRows(S \ {m})

\* all(np.equal(seg_color, np.zeros(3)))
IsBackground(c) == \A k \in DOMAIN c : c[k] = 0

\* Mutant: only the non-background colours are discovered.
UniqueNonBackground(im) == SortRows({c \in {im.px[p] : p \in DOMAIN im.px} : ~IsBackground(c)})

Unique(im) == SortRows({im.px[p] : p \in DOMAIN im.px})

\* ------------------------------------------------------------ binary masks
MkMask(h, w, fg) == [h |-> h, w |-> w, fg |-> fg]

\* skimage.color.rgb2gray weights, times 10000.
Gray(c) == 2125 * c[1] + 7154 * c[2] + 721 * c[3]

\* masked_image: the image with every pixel of another colour zeroed, in gray;
\* the morphology treats its non-zero pixels as foreground.
CategoryMask(im, seg_color) ==
    MkMask(im.h, im.w, {p \in DOMAIN im.px : im.px[p] = seg_color /\ Gray(im.px[p]) # 0})

\* The cross-shaped (connectivity 1) footprint.
Cross(p) == {p, <<p[1] - 1, p[2]>>, <<p[1] + 1, p[2]>>, <<p[1], p[2] - 1>>, <<p[1], p[2] + 1>>}

\* Erosion counts the pixels beyond the array as foreground.
binary_erosion(m) ==
    [m EXCEPT !.fg = {p \in m.fg : \A q \in Cross(p) : q \in Pix(m.h, m.w) => q \in m.fg}]
binary_dilation(m) ==
    [m EXCEPT !.fg = {p \in Pix(m.h, m.w) : Cross(p) \cap m.fg # {}}]
binary_opening(m) == binary_dilation(binary_erosion(m))
binary_closing(m) == binary_erosion(binary_dilation(m))

Cleanup(m, remove_salt) ==
    IF remove_salt THEN binary_closing(binary_opening(m)) ELSE binary_opening(m)

\* np.pad(masked_image, 1, pad_with, padder=False)
Pad(m) == MkMask(m.h + 2 * PadWidth, m.w + 2 * PadWidth,
                 {<<p[1] + PadWidth, p[2] + PadWidth>> : p \in m.fg})

\* ndi.binary_fill_holes: the background that no 4-connected background path
\* joins to the array's border becomes foreground.
RECURSIVE Flood(_, _)
Flood(m, seen) ==
    LET more == {p \in Pix(m.h, m.w) \ (m.fg \cup seen) : Cross(p) \cap seen # {}}
    IN IF more = {} THEN seen ELSE Flood(m, seen \cup more)

BorderPix(m) == {p \in Pix(m.h, m.w) : p[1] \in {0, m.h - 1} \/ p[2] \in {0, m.w - 1}}

\* Mutant: nothing is filled.
binary_fill_holes_skipped(m) == m

binary_fill_holes(m) ==
    [m EXCEPT !.fg = Pix(m.h, m.w) \ Flood(m, BorderPix(m) \ m.fg)]

\* ------------------------------------------------------ binary_mask_to_rle
\* binary_mask.ravel(order='F') as a sequence of 0/1.
RavelF(m) ==
    [k \in 1 .. (m.h * m.w) |->
        IF <<(k - 1) % m.h, (k - 1) \div m.h>> \in m.fg THEN 1 ELSE 0]

\* itertools.groupby: the maximal runs of equal values, as <<value, length>>.
RECURSIVE GroupBy(_)
GroupBy(s) ==
    IF s = <<>> THEN <<>>
    ELSE LET rest == GroupBy(Tail(s))
         IN IF rest # <<>> /\ rest[1][1] = Head(s)
            THEN <<<<Head(s), rest[1][2] + 1>>>> \o Tail(rest)
            ELSE <<<<Head(s), 1>>>> \o rest

\* Mutant: no leading zero when the first run is foreground.
RleCountsNoLeadingZero(groups) == [k \in DOMAIN groups |-> groups[k][2]]

RleCounts(groups) ==
    LET lens == [k \in DOMAIN groups |-> groups[k][2]]
    IN IF groups # <<>> /\ groups[1][1] = 1 THEN <<0>> \o lens ELSE lens

binary_mask_to_rle(m) ==
    [counts |-> RleCounts(GroupBy(RavelF(m))), size |-> <<m.h, m.w>>]

\* ----------------------------------------------------- measure.find_contours
\* The contour level 0.01 in hundredths: a vertex lies Level/100 from the
\* background pixel's centre, on the grid line to the foreground pixel.
Level == 1
Scale == 100

DirU == <<-1, 0>>
DirR == <<0, 1>>
DirD == <<1, 0>>
DirL == <<0, -1>>
Dirs == {DirU, DirR, DirD, DirL}
RotCW(d) == <<d[2], 0 - d[1]>>
Step(p, d) == <<p[1] + d[1], p[2] + d[2]>>

\* A boundary edge <<p, d>>: foreground pixel p whose neighbour in direction d
\* is background.  Its vertex in (row, col), in hundredths.
BoundaryEdges(m) == {e \in m.fg \X Dirs : Step(e[1], e[2]) \notin m.fg}
Vertex(e) ==
    <<Scale * e[1][1] + (Scale - Level) * e[2][1],
      Scale * e[1][2] + (Scale - Level) * e[2][2]>>

\* The edge after e, winding clockwise on screen (rows downwards) around the
\* foreground; high values are face-connected only (fully_connected='low').
NextEdge(m, e) ==
    LET p == e[1]
        d == e[2]
        t == RotCW(d)
        q == Step(p, t)
        r == Step(q, d)
    IN IF q \notin m.fg THEN <<p, t>>
       ELSE IF r \in m.fg THEN <<r, <<0 - t[1], 0 - t[2]>>>>
       ELSE <<q, d>>

RECURSIVE TraceFrom(_, _, _)
TraceFrom(m, e0, cyc) ==
    LET n == NextEdge(m, cyc[Len(cyc)])
    IN IF n = e0 THEN cyc ELSE TraceFrom(m, e0, Append(cyc, n))

\* Raster order of pixels: by row, then by column.
RasterLess(p, q) == p[1] < q[1] \/ (p[1] = q[1] /\ p[2] < q[2])
FirstPix(S) == CHOOSE p \in S : \A q \in S \ {p} : RasterLess(p, q)
LastPix(S) == CHOOSE p \in S : \A q \in S \ {p} : RasterLess(q, p)

Reverse(s) == [k \in 1 .. Len(s) |-> s[Len(s) + 1 - k]]
Rotate(s, k) == SubSeq(s, k, Len(s)) \o SubSeq(s, 1, k - 1)
IndexOf(s, x) == CHOOSE k \in DOMAIN s : s[k] = x

\* One closed contour: the cycle of edges cyc (clockwise), begun where the
\* segment assembly closes it, which is at the last marching-squares cell of
\* the contour: the cell below and right of the contour's last pixel.  The
\* winding decides which end of that cell's segment comes first.
ClosedContour(cyc, clockwise) ==
    LET P == LastPix({cyc[k][1] : k \in DOMAIN cyc})
        open == IF clockwise
                THEN Rotate(cyc, IndexOf(cyc, <<P, DirD>>))
                ELSE Reverse(Rotate(cyc, IndexOf(cyc, <<P, DirD>>)))
        pts == [k \in DOMAIN open |-> Vertex(open[k])]
    IN Append(pts, pts[1])

\* The contours in the order of their first cell, that is of their first pixel.
RECURSIVE ContoursOf(_, _, _)
ContoursOf(m, edges, clockwise) ==
    IF edges = {} THEN <<>>
    ELSE LET P0 == FirstPix({e[1] : e \in edges})
             cyc == TraceFrom(m, <<P0, DirU>>, <<<<P0, DirU>>>>)
         IN <<ClosedContour(cyc, clockwise)>>
                \o ContoursOf(m, edges \ Range(cyc), clockwise)

find_contours(m, clockwise) == ContoursOf(m, BoundaryEdges(m), clockwise)

\* contour[j] = (col - 1, row - 1)
FlipUnpad(contour) ==
    [k \in DOMAIN contour |-> <<contour[k][2] - PadWidth * Scale, contour[k][1] - PadWidth * Scale>>]

\* ------------------------------------------------ exact integer comparisons
\* The product a * b as three digits in base WideBase, most significant first
\* (the products of the distance tests exceed 32 bits).
WideBase == 2 ^ 15
WideMul(a, b) ==
    LET a1 == a \div WideBase
        a0 == a % WideBase
        b1 == b \div WideBase
        b0 == b % WideBase
        low == a0 * b0
        mid == a1 * b0 + a0 * b1 + (low \div WideBase)
    IN <<a1 * b1 + (mid \div WideBase), mid % WideBase, low % WideBase>>
WideLess(x, y) == LexLess(x, y)

\* --------------------------------------------- Polygon.simplify(1.0, True)
\* The tolerance 1.0 in hundredths of a pixel.
Tolerance == 100
\* A closed ring keeps at least this many points.
MinimumSize == 4

Dot(a, b, p) == (p[1] - a[1]) * (b[1] - a[1]) + (p[2] - a[2]) * (b[2] - a[2])
CrossProd(a, b, p) == (b[1] - a[1]) * (p[2] - a[2]) - (b[2] - a[2]) * (p[1] - a[1])
Dist2(a, b) == (a[1] - b[1]) * (a[1] - b[1]) + (a[2] - b[2]) * (a[2] - b[2])

\* The distance of p to the segment a-b: either |v| / |a-b| (perp) or sqrt(v).
PointToSegment(p, a, b) ==
    IF a = b THEN [perp |-> FALSE, v |-> Dist2(p, a)]
    ELSE IF Dot(a, b, p) <= 0 THEN [perp |-> FALSE, v |-> Dist2(p, a)]
    ELSE IF Dot(a, b, p) >= Dist2(a, b) THEN [perp |-> FALSE, v |-> Dist2(p, b)]
    ELSE [perp |-> TRUE, v |-> Abs(CrossProd(a, b, p))]

\* x > y for two distances to the same segment, of squared length len2.
DistGreater(x, y, len2) ==
    IF x.perp = y.perp THEN x.v > y.v
    ELSE IF x.perp THEN WideLess(WideMul(y.v, len2), WideMul(x.v, x.v))
    ELSE WideLess(WideMul(y.v, y.v), WideMul(x.v, len2))

ExceedsTolerance(x, len2) ==
    IF x.perp THEN WideLess(WideMul(Tolerance * Tolerance, len2), WideMul(x.v, x.v))
    ELSE x.v > Tolerance * Tolerance

\* The first point strictly between i and j that is furthest from pts[i]-pts[j].
findFurthestPoint(pts, i, j) ==
    LET d(k) == PointToSegment(pts[k], pts[i], pts[j])
        len2 == Dist2(pts[i], pts[j])
    IN CHOOSE k \in (i + 1) .. (j - 1) :
           /\ \A l \in (i + 1) .. (j - 1) : ~DistGreater(d(l), d(k), len2)
           /\ \A l \in (i + 1) .. (k - 1) : DistGreater(d(k), d(l), len2)

Sign(v) == IF v > 0 THEN 1 ELSE IF v < 0 THEN -1 ELSE 0
OnSegment(a, b, p) ==
    /\ CrossProd(a, b, p) = 0
    /\ Min(a[1], b[1]) <= p[1] /\ p[1] <= Max(a[1], b[1])
    /\ Min(a[2], b[2]) <= p[2] /\ p[2] <= Max(a[2], b[2])

\* The segments a-b and c-d meet in a point that is not an end of both.
hasInteriorIntersection(a, b, c, d) ==
    \/ /\ Sign(CrossProd(a, b, c)) * Sign(CrossProd(a, b, d)) < 0
       /\ Sign(CrossProd(c, d, a)) * Sign(CrossProd(c, d, b)) < 0
    \/ \E p \in {c, d} : OnSegment(a, b, p) /\ p \notin {a, b}
    \/ \E p \in {a, b} : OnSegment(c, d, p) /\ p \notin {c, d}

\* res: the result segments so far, as pairs of indices into pts.  The chord
\* pts[i]-pts[j] may not cross a chord already made, nor an input segment that
\* is still in place outside the section i..j.
hasBadIntersection(pts, res, i, j) ==
    LET flat == {s \in Range(res) : s[2] > s[1] + 1}
        gone(k) == \E s \in flat : s[1] <= k /\ k < s[2]
    IN \/ \E s \in flat : hasInteriorIntersection(pts[s[1]], pts[s[2]], pts[i], pts[j])
       \/ \E k \in 1 .. (Len(pts) - 1) :
              /\ ~gone(k)
              /\ ~(i <= k /\ k < j)
              /\ hasInteriorIntersection(pts[k], pts[k + 1], pts[i], pts[j])

RECURSIVE simplifySection(_, _, _, _, _)
simplifySection(pts, i, j, depth0, res) ==
    LET depth == depth0 + 1
    IN IF i + 1 = j THEN Append(res, <<i, j>>)
       ELSE LET resultSize == IF res = <<>> THEN 0 ELSE Len(res) + 1
                f == findFurthestPoint(pts, i, j)
                valid ==
                    /\ ~(resultSize < MinimumSize /\ depth + 1 < MinimumSize)
                    /\ ~ExceedsTolerance(PointToSegment(pts[f], pts[i], pts[j]),
                                         Dist2(pts[i], pts[j]))
                    /\ ~hasBadIntersection(pts, res, i, j)
            IN IF valid THEN Append(res, <<i, j>>)
               ELSE simplifySection(pts, f, j, depth, simplifySection(pts, i, f, depth, res))

\* The simplified exterior ring of Polygon(contour).
simplify(pts) ==
    LET res == simplifySection(pts, 1, Len(pts), 0, <<>>)
    IN <<pts[1]>> \o [k \in DOMAIN res |-> pts[res[k][2]]]

\* ------------------------------------------------- bounds, areas, normalising
\* poly.bounds = (minx, miny, maxx, maxy)
Bounds(points) ==
    <<SetMin({p[1] : p \in points}), SetMin({p[2] : p \in points}),
      SetMax({p[1] : p \in points}), SetMax({p[2] : p \in points})>>
\* Mutant: the corners, not the extents.
BBoxCorners(b) == b

\* bbox = (x, y, max_x - x, max_y - y)
BBox(b) == <<b[1], b[2], b[3] - b[1], b[4] - b[2]>>

\* Twice the signed area of a closed ring (shoelace), in hundredths squared.
RECURSIVE Shoelace(_)
Shoelace(ring) ==
    IF Len(ring) < 2 THEN 0
    ELSE ring[1][1] * ring[2][2] - ring[2][1] * ring[1][2] + Shoelace(Tail(ring))
\* poly.area, in units of 1/20000 of a square pixel.
PolyArea(ring) == Abs(Shoelace(ring))

\* np.array(poly.exterior.coords).ravel().tolist()
RECURSIVE Ravel(_)
Ravel(ring) == IF ring = <<>> THEN <<>> ELSE <<ring[1][1], ring[1][2]>> \o Ravel(Tail(ring))

\* A quotient n / d of numbers held in hundredths, kept as the pair <<n, 100 d>>.
Frac(n, d) == <<n, Scale * d>>

\* x/img_height if k % 2 == 0 else x/img_width, k counted from 0
SegmentationFloat(segmentation, img_height, img_width) ==
    [k \in DOMAIN segmentation |->
        IF (k - 1) % 2 = 0 THEN Frac(segmentation[k], img_height)
        ELSE Frac(segmentation[k], img_width)]

BBoxFloat(bbox, img_height, img_width) ==
    <<Frac(bbox[1], img_width), Frac(bbox[2], img_height),
      Frac(bbox[3], img_width), Frac(bbox[4], img_height)>>

AreaFloat(area, img_height, img_width) == <<area, 2 * Scale * Scale * (img_width * img_height)>>

\* ------------------------------------------- one category of seg_to_annotations
\* The padded, cleaned mask of a category.
MaskedImage(im, seg_color, salt) == Pad(Cleanup(CategoryMask(im, seg_color), salt))

\* The mask the contours are traced from.
TracedMask(im, seg_color, salt) == binary_fill_holes(MaskedImage(im, seg_color, salt))

\* The mask binary_mask_to_rle is given.
RleMask(im, seg_color, salt) == MaskedImage(im, seg_color, salt)

Contours(im, seg_color, salt, clockwise) ==
    find_contours(TracedMask(im, seg_color, salt), clockwise)

\* MultiPolygon(polygons).area: the sum of the polygons' areas.
MultiPolygonArea(polygons) == SeqSum([k \in DOMAIN polygons |-> PolyArea(polygons[k])])
MultiPolygonBounds(polygons) == Bounds(UNION {Range(polygons[k]) : k \in DOMAIN polygons})

\* Mutant: the colour of the first row of unique_colors.
AnnotationColorFirst(im, seg_color) == Unique(im)[1]

\* 'color': tuple(seg_color)
AnnotationColor(im, seg_color) == seg_color

Annotation(im, seg_color, salt, with_rle, with_float, clockwise) ==
    LET contours == Contours(im, seg_color, salt, clockwise)
        polygons == [k \in DOMAIN contours |-> simplify(FlipUnpad(contours[k]))]
        segmentations == [k \in DOMAIN polygons |-> Ravel(polygons[k])]
        bboxes == [k \in DOMAIN polygons |-> BBox(Bounds(Range(polygons[k])))]
        areas == [k \in DOMAIN polygons |-> PolyArea(polygons[k])]
        bbox == BBox(MultiPolygonBounds(polygons))
        area == MultiPolygonArea(polygons)
        base == [color |-> AnnotationColor(im, seg_color), segmentation |-> segmentations, bbox |-> bbox,
                 area |-> area, bboxes |-> bboxes, areas |-> areas]
        withRle ==
            IF with_rle
            THEN [segmentation_rle |-> binary_mask_to_rle(RleMask(im, seg_color, salt))]
            ELSE <<>>
        withFloat ==
            IF with_float
            THEN [segmentation_float |->
                      [k \in DOMAIN segmentations |->
                          SegmentationFloat(segmentations[k], im.h, im.w)],
                  bbox_float |-> BBoxFloat(bbox, im.h, im.w),
                  area_float |-> AreaFloat(area, im.h, im.w),
                  bboxes_float |->
                      [k \in DOMAIN bboxes |-> BBoxFloat(bboxes[k], im.h, im.w)],
                  areas_float |->
                      [k \in DOMAIN areas |-> AreaFloat(areas[k], im.h, im.w)]]
            ELSE <<>>
    IN base @@ withRle @@ withFloat

\* ------------------------------------------------------------------ state
VARIABLES
    file,              \* the file at image_path
    remove_salt, rle_segmentations, float_annotations, max_categories,
    debug,             \* log.getEffectiveLevel() == logging.DEBUG
    pc,                \* "open", "discover", "loop", "done", "rle"
    img,               \* the array open_image returned
    unique_colors,     \* the sorted distinct colours
    i,                 \* the category loop's index
    annotations,       \* the list built so far
    result,            \* what the call returned or raised
    binary_mask,       \* binary_mask_to_rle's argument, called on its own
    rle,               \* and its return value
    _init_done, _auth_token, _base_url, _version, _versioned_url, _project,
                       \* the module state of zpy.client
    op,                \* the last client operation: "none", "init", "call"
    outcome,           \* what that operation returned or raised
    fetched_with       \* history: the arguments of the init call that stored _project

vars == <<file, remove_salt, rle_segmentations, float_annotations, max_categories, debug,
          pc, img, unique_colors, i, annotations, result, binary_mask, rle,
          _init_done, _auth_token, _base_url, _version, _versioned_url, _project,
          op, outcome, fetched_with>>

inputs == <<file, remove_salt, rle_segmentations, float_annotations, max_categories, debug>>
rleVars == <<binary_mask, rle>>
moduleState == <<_init_done, _auth_token, _base_url, _version, _versioned_url, _project>>
clientVars == <<moduleState, op, outcome, fetched_with>>

NoMask == MkMask(0, 0, {})
NoRle == [counts |-> <<>>, size |-> <<>>]
Running == [status |-> "running"]
Raised(e) == [status |-> "raised", error |-> e]
Returned(v) == [status |-> "returned", value |-> v]

\* Python's None, and the state of zpy.client when the module is loaded.
None == [none |-> TRUE]
NoOutcome == [status |-> "idle"]
ModuleLoaded ==
    /\ _init_done = FALSE
    /\ _auth_token = ""
    /\ _base_url = ""
    /\ _version = ""
    /\ _versioned_url = ""
    /\ _project = None
    /\ op = "none"
    /\ outcome = NoOutcome
    /\ fetched_with = None

Init ==
    /\ file \in Files
    /\ remove_salt \in BOOLEAN
    /\ rle_segmentations \in BOOLEAN
    /\ float_annotations \in BOOLEAN
    /\ max_categories \in (1 .. MaxCategories) \cup {DefaultMaxCategories}
    /\ debug \in BOOLEAN
    /\ pc = "open"
    /\ img = NoneImg
    /\ unique_colors = <<>>
    /\ i = 0
    /\ annotations = <<>>
    /\ result = Running
    /\ binary_mask = NoMask
    /\ rle = NoRle
    /\ ModuleLoaded

\* ------------------------------------------------------- seg_to_annotations
SegColor == unique_colors[i + 1]

\* img = open_image(image_path); img_height, img_width = img.shape[0], img.shape[1]
OpenImage ==
    /\ pc = "open"
    /\ img' = open_image(file)
    /\ IF img'.none
       THEN pc' = "done" /\ result' = Raised("AttributeError")
       ELSE pc' = "discover" /\ UNCHANGED result
    /\ UNCHANGED <<inputs, unique_colors, i, annotations, rleVars, clientVars>>

\* unique_colors = np.unique(...); the category limit
DiscoverCategories ==
    /\ pc = "discover"
    /\ IF img.ndim < 3
       THEN pc' = "done" /\ result' = Raised("IndexError") /\ UNCHANGED unique_colors
       ELSE /\ unique_colors' = Unique(img)
            /\ IF Len(unique_colors') > max_categories
               THEN pc' = "done" /\ result' = Raised("CategoryLimit")
               ELSE pc' = "loop" /\ UNCHANGED result
    /\ UNCHANGED <<inputs, img, i, annotations, rleVars, clientVars>>

InLoop == pc = "loop" /\ i < Len(unique_colors)

\* np.equal(seg_color, np.zeros(3)) of a colour that has not 3 channels
CompareFails ==
    /\ InLoop
    /\ Len(SegColor) # 3
    /\ pc' = "done"
    /\ result' = Raised("ValueError")
    /\ UNCHANGED <<inputs, img, unique_colors, i, annotations, rleVars, clientVars>>

\* Color is background: continue
SkipBackground ==
    /\ InLoop
    /\ Len(SegColor) = 3
    /\ IsBackground(SegColor)
    /\ i' = i + 1
    /\ UNCHANGED <<inputs, pc, img, unique_colors, annotations, result, rleVars, clientVars>>

IsCategory == InLoop /\ Len(SegColor) = 3 /\ ~IsBackground(SegColor)

\* io.imsave of the category's masked image, at debug level, fails
DebugSaveFails ==
    /\ IsCategory
    /\ debug
    /\ pc' = "done"
    /\ result' = Raised("OSError")
    /\ UNCHANGED <<inputs, img, unique_colors, i, annotations, rleVars, clientVars>>

\* Mutant: the loop ends at the first category without contours.
SkipNoContoursBreak ==
    /\ IsCategory
    /\ Contours(img, SegColor, remove_salt, TRUE) = <<>>
    /\ pc' = "done"
    /\ result' = Returned(annotations)
    /\ UNCHANGED <<inputs, img, unique_colors, i, annotations, rleVars, clientVars>>

\* len(contours) == 0: continue
SkipNoContours ==
    /\ IsCategory
    /\ Contours(img, SegColor, remove_salt, TRUE) = <<>>
    /\ i' = i + 1
    /\ UNCHANGED <<inputs, pc, img, unique_colors, annotations, result, rleVars, clientVars>>

\* annotations.append(annotation)
AppendAnnotation ==
    /\ IsCategory
    /\ Contours(img, SegColor, remove_salt, TRUE) # <<>>
    /\ \E clockwise \in BOOLEAN :
           annotations' = Append(annotations,
                                 Annotation(img, SegColor, remove_salt, rle_segmentations,
                                            float_annotations, clockwise))
    /\ i' = i + 1
    /\ UNCHANGED <<inputs, pc, img, unique_colors, result, rleVars, clientVars>>

\* return annotations
Return ==
    /\ pc = "loop"
    /\ i = Len(unique_colors)
    /\ pc' = "done"
    /\ result' = Returned(annotations)
    /\ UNCHANGED <<inputs, img, unique_colors, i, annotations, rleVars, clientVars>>

Next ==
    \/ OpenImage
    \/ DiscoverCategories
    \/ CompareFails
    \/ SkipBackground
    \/ DebugSaveFails
    \/ SkipNoContours
    \/ AppendAnnotation
    \/ Return

Spec == Init /\ [][Next]_vars

\* ------------------------------------- binary_mask_to_rle called on its own
Masks ==
    UNION {{MkMask(hw[1], hw[2], fg) : fg \in SUBSET Pix(hw[1], hw[2])} : hw \in Shapes}

InitRle ==
    /\ file = CorruptFile
    /\ remove_salt = TRUE
    /\ rle_segmentations = TRUE
    /\ float_annotations = FALSE
    /\ max_categories = DefaultMaxCategories
    /\ debug = FALSE
    /\ pc = "rle"
    /\ img = NoneImg
    /\ unique_colors = <<>>
    /\ i = 0
    /\ annotations = <<>>
    /\ result = Running
    /\ binary_mask \in Masks
    /\ rle = NoRle
    /\ ModuleLoaded

EncodeRle ==
    /\ pc = "rle"
    /\ rle' = binary_mask_to_rle(binary_mask)
    /\ pc' = "rle_done"
    /\ UNCHANGED <<inputs, img, unique_colors, i, annotations, result, binary_mask, clientVars>>

NextRle == EncodeRle

SpecRle == InitRle /\ [][NextRle]_vars

\* ------------------------------------------------------------- zpy.client
\* The arguments init is called with.
DefaultBaseUrl == "https://ragnarok.zumok8s.org"
DefaultVersion == "v2"
AuthTokens == {"", "token-a", "token-b"}
ValidUuids == {"0f4c3a52-7d0e-4b6f-9a55-2f3a89f0c001", "6b1e9d7c-2a44-4c1f-8e0b-5d7c3e9a0002"}
ProjectUuids == {"", "not-a-uuid"} \cup ValidUuids
BaseUrls == {DefaultBaseUrl, "http://localhost:8000"}
Versions == {DefaultVersion, "v1"}

\* f"{base_url}/api/{version}"
VersionedUrl(base_url, version) == <<base_url, "/api/", version>>

\* UUID(project_uuid, version=4) raises no ValueError
IsUuid(project_uuid) == project_uuid \in ValidUuids

\* pydash.is_empty of a string
is_empty(auth_token) == auth_token = ""

\* What get(...).json() of the project request does: it gives the project, or
\* get raises requests.exceptions.HTTPError with a status code, or another
\* error of requests.
OkResponse(project_uuid) == [raises |-> "none", json |-> [id |-> project_uuid]]
HttpError(status_code) == [raises |-> "HTTPError", status_code |-> status_code]
ConnectionFailed == [raises |-> "ConnectionError"]
Responses(project_uuid) ==
    {OkResponse(project_uuid), ConnectionFailed} \cup {HttpError(c) : c \in {401, 403, 404, 500}}

InitClient ==
    /\ file = CorruptFile
    /\ remove_salt = TRUE
    /\ rle_segmentations = FALSE
    /\ float_annotations = FALSE
    /\ max_categories = DefaultMaxCategories
    /\ debug = FALSE
    /\ pc = "client"
    /\ img = NoneImg
    /\ unique_colors = <<>>
    /\ i = 0
    /\ annotations = <<>>
    /\ result = Running
    /\ binary_mask = NoMask
    /\ rle = NoRle
    /\ ModuleLoaded

\* One call of init, from its first statement to its return or raise.
init(auth_token, project_uuid, base_url, version, response) ==
    /\ pc = "client"
    /\ _auth_token' = auth_token
    /\ _base_url' = base_url
    /\ _version' = version
    /\ _versioned_url' = VersionedUrl(base_url, version)
    /\ op' = "init"
    /\ IF ~IsUuid(project_uuid)
       THEN /\ outcome' = Raised("InvalidProjectError")
            /\ UNCHANGED <<_project, _init_done, fetched_with>>
       ELSE IF is_empty(auth_token)
       THEN /\ outcome' = Raised("InvalidAuthTokenError")
            /\ UNCHANGED <<_project, _init_done, fetched_with>>
       ELSE IF response.raises = "none"
       THEN /\ _project' = response.json
            /\ _init_done' = TRUE
            /\ fetched_with' = [auth_token |-> auth_token, base_url |-> base_url,
                                version |-> version]
            /\ outcome' = Returned(None)
       ELSE IF response.raises = "HTTPError"
       THEN /\ outcome' = IF response.status_code = 401 THEN Raised("InvalidAuthTokenError")
                          ELSE IF response.status_code = 404 THEN Raised("InvalidProjectError")
                          ELSE Returned(None)
            /\ UNCHANGED <<_project, _init_done, fetched_with>>
       ELSE /\ outcome' = Raised(response.raises)
            /\ UNCHANGED <<_project, _init_done, fetched_with>>
    /\ UNCHANGED <<inputs, pc, img, unique_colors, i, annotations, result, rleVars>>

ClientInit ==
    \E auth_token \in AuthTokens, project_uuid \in ProjectUuids,
       base_url \in BaseUrls, version \in Versions :
        \E response \in Responses(project_uuid) :
            init(auth_token, project_uuid, base_url, version, response)

\* A call of a function decorated with require_zpy_init.
GuardedCall ==
    /\ pc = "client"
    /\ op' = "call"
    /\ outcome' = IF ~_init_done THEN Raised("ClientNotInitializedError")
                  ELSE Returned("func(*args, **kwargs)")
    /\ UNCHANGED <<inputs, pc, img, unique_colors, i, annotations, result, rleVars,
                   moduleState, fetched_with>>

NextClient ==
    \/ ClientInit
    \/ GuardedCall

SpecClient == InitClient /\ [][NextClient]_vars

\* ================================================================ properties
DistinctColours(im) == {im.px[p] : p \in DOMAIN im.px}
IsRaster(im) == ~im.none /\ im.ndim = 3
Discovered == pc \in {"loop", "done"} /\ IsRaster(img)

\* A run-length decoder: counts are alternating run lengths that begin with a
\* background run, laid out column by column over a size[1] x size[2] grid.
RECURSIVE Expand(_, _)
Expand(counts, v) ==
    IF counts = <<>> THEN <<>>
    ELSE [k \in 1 .. counts[1] |-> v] \o Expand(Tail(counts), 1 - v)
DecodeRle(r) ==
    LET flat == Expand(r.counts, 0)
    IN MkMask(r.size[1], r.size[2],
              {<<(k - 1) % r.size[1], (k - 1) \div r.size[1]>> :
                  k \in {l \in DOMAIN flat : flat[l] = 1}})

\* A quotient <<n, d>> with 0 <= n/d <= 1.
InUnit(q) == 0 <= q[1] /\ q[1] <= q[2]

\* The annotations a finished call returned, else those built so far.
Emitted == IF result.status = "returned" THEN result.value ELSE annotations

\* The category's mask keeps some foreground through the cleanup.
Survives(im, c, salt) == Cleanup(CategoryMask(im, c), salt).fg # {}

\* C1: seg_to_annotations fails with the category-limit error exactly when the
\* raster has more distinct pixel colours than max_categories, the all-zero
\* colour counted; the failure comes before any category is processed, so no
\* annotation has been built and none is returned.
C1_CategoryLimit ==
    /\ Discovered =>
           (result = Raised("CategoryLimit")
                <=> Cardinality(DistinctColours(img)) > max_categories)
    /\ result = Raised("CategoryLimit") =>
           /\ Cardinality(DistinctColours(open_image(file))) > max_categories
           /\ annotations = <<>>
           /\ i = 0
    /\ result.status = "returned" =>
           Cardinality(DistinctColours(img)) <= max_categories

\* C1 witness: the limit error is raised for a raster whose colours exceed
\* max_categories only because the all-zero colour is counted.
C1_Witness ==
    /\ result = Raised("CategoryLimit")
    /\ \E c \in DistinctColours(img) : IsBackground(c)
    /\ Cardinality(DistinctColours(img)) = max_categories + 1

\* C2: decoding binary_mask_to_rle's output gives back the mask; a mask whose
\* first traversed pixel is foreground gets a first count of 0, every later
\* count is at least 1, and the counts add up to height times width.
C2_RleRoundTrip ==
    pc = "rle_done" =>
        /\ DecodeRle(rle) = binary_mask
        /\ <<0, 0>> \in binary_mask.fg => rle.counts[1] = 0
        /\ \A k \in DOMAIN rle.counts : k >= 2 => rle.counts[k] >= 1
        /\ SeqSum(rle.counts) = binary_mask.h * binary_mask.w

\* C2 witness: a mask that begins with foreground and has several runs is encoded.
C2_Witness ==
    /\ pc = "rle_done"
    /\ <<0, 0>> \in binary_mask.fg
    /\ Len(rle.counts) >= 4
    /\ rle.counts[1] = 0

\* C3: with float_annotations, every value of segmentation_float, bbox_float and
\* bboxes_float lies in [0,1], every x being the pixel x over the image width
\* and every y the pixel y over the image height.
C3_FloatsNormalised ==
    \A k \in DOMAIN annotations :
        LET a == annotations[k]
        IN "segmentation_float" \in DOMAIN a =>
               /\ \A c \in DOMAIN a.segmentation_float :
                      \A j \in DOMAIN a.segmentation_float[c] :
                          /\ InUnit(a.segmentation_float[c][j])
                          /\ a.segmentation_float[c][j] =
                                 Frac(a.segmentation[c][j],
                                      IF j % 2 = 1 THEN img.w ELSE img.h)
               /\ \A j \in 1 .. 4 : InUnit(a.bbox_float[j])
               /\ \A c \in DOMAIN a.bboxes_float :
                      \A j \in 1 .. 4 : InUnit(a.bboxes_float[c][j])

\* C4: no annotation has the all-zero colour, and a raster whose every pixel is
\* all-zero yields the empty list.
C4_BackgroundNeverEmitted ==
    /\ \A k \in DOMAIN Emitted : ~IsBackground(Emitted[k].color)
    /\ (result.status = "returned" /\ \A c \in DistinctColours(img) : IsBackground(c))
           => result.value = <<>>

\* C4 witness: a call returns annotations for a raster that has background
\* pixels; another returns for a raster that is all background.
C4_Witness ==
    /\ result.status = "returned"
    /\ \E c \in DistinctColours(img) : IsBackground(c)
    /\ \/ result.value # <<>>
       \/ Cardinality(DistinctColours(img)) = 1

\* C5: the annotations are in strictly ascending lexicographic order of their
\* colours, and the colours returned are those of the non-background categories
\* whose mask survives the cleanup: the same sequence on every extraction.
C5_AscendingColours ==
    /\ \A j, k \in DOMAIN Emitted : j < k => LexLess(Emitted[j].color, Emitted[k].color)
    /\ \A k \in DOMAIN Emitted : Emitted[k].color \in DistinctColours(img)
    /\ result.status = "returned" =>
           {result.value[k].color : k \in DOMAIN result.value}
               = {c \in DistinctColours(img) :
                     ~IsBackground(c) /\ Survives(img, c, remove_salt)}

\* C5 witness: a call returns two annotations.
C5_Witness == result.status = "returned" /\ Len(result.value) >= 2

\* C6: a category whose mask has no foreground after the cleanup gets no
\* annotation and raises nothing, and every other category gets the annotation it
\* gets on its own: the list returned is, in order, one annotation per surviving
\* non-background colour; without debug image dumps every raster within the
\* category limit returns.
C6_NoiseCategorySkipped ==
    LET Kept(c) == ~IsBackground(c) /\ Survives(img, c, remove_salt)
        kept == SelectSeq(Unique(img), Kept)
    IN /\ result.status = "returned" =>
              /\ Len(result.value) = Len(kept)
              /\ \A k \in DOMAIN kept :
                     \E clockwise \in BOOLEAN :
                         result.value[k] =
                             Annotation(img, kept[k], remove_salt, rle_segmentations,
                                        float_annotations, clockwise)
       /\ (pc = "done" /\ ~debug /\ IsRaster(img) /\ file.kind \in {"rgb", "rgba"}
               /\ Cardinality(DistinctColours(img)) <= max_categories)
              => result.status = "returned"

\* C6 witness: a call returns an annotation for a colour that sorts after a
\* colour whose mask was noise only.
C6_Witness ==
    /\ result.status = "returned"
    /\ \E c \in DistinctColours(img), k \in DOMAIN result.value :
           /\ ~IsBackground(c)
           /\ ~Survives(img, c, remove_salt)
           /\ LexLess(c, result.value[k].color)

\* C7: a failure while one category is processed is absorbed: the loop goes on
\* to the next category and keeps the annotations built so far.
C7_CategoryFailureAbsorbed ==
    [][IsCategory =>
           /\ pc' = "loop"
           /\ i' = i + 1
           /\ SubSeq(annotations', 1, Len(annotations)) = annotations]_vars

\* C8: the 10x10 raster with one 4x4 square at (2,2), default options: exactly
\* one annotation, each bbox component within 1 pixel of (2,2,4,4), and an area
\* between those of the 3x3 and the 5x5 square.
IsSquareCall ==
    /\ file \in SquareFiles
    /\ remove_salt
    /\ ~rle_segmentations
    /\ ~float_annotations
    /\ max_categories = DefaultMaxCategories
    /\ ~debug
C8_SquareAnnotation ==
    (IsSquareCall /\ pc = "done") =>
        /\ result.status = "returned"
        /\ Len(result.value) = 1
        /\ LET a == result.value[1]
               want == <<2 * Scale, 2 * Scale, 4 * Scale, 4 * Scale>>
           IN /\ \A j \in 1 .. 4 : Abs(a.bbox[j] - want[j]) <= Scale
              /\ a.area >= 2 * (3 * Scale) * (3 * Scale)
              /\ a.area <= 2 * (5 * Scale) * (5 * Scale)

\* C8 witness: the call on the square raster has returned an annotation.
C8_Witness == IsSquareCall /\ result.status = "returned" /\ Len(result.value) = 1

\* C9: a raster that is missing or has fewer than 3 channels fails with the
\* invalid-image error before any category is discovered.
C9_InvalidImageRejected ==
    (pc = "done" /\ file.kind \in {"corrupt", "gray", "ga"}) =>
        /\ result = Raised("InvalidImageError")
        /\ unique_colors = <<>>

\* C10 as stated: the mask decoded from segmentation_rle is the mask the
\* contours are traced from.
C10_RleMaskIsTracedMask ==
    \A k \in DOMAIN annotations :
        "segmentation_rle" \in DOMAIN annotations[k] =>
            DecodeRle(annotations[k].segmentation_rle)
                = TracedMask(img, annotations[k].color, remove_salt)

\* ---------------------------------------------------------------- C11
\* The exterior ring a segmentation list was flattened from.
Unravel(segmentation) ==
    [k \in 1 .. (Len(segmentation) \div 2) |-> <<segmentation[2 * k - 1], segmentation[2 * k]>>]

\* The segments a-b and c-d cross in a point interior to both.
ProperCross(a, b, c, d) ==
    /\ Sign(CrossProd(a, b, c)) * Sign(CrossProd(a, b, d)) < 0
    /\ Sign(CrossProd(c, d, a)) * Sign(CrossProd(c, d, b)) < 0

\* p lies strictly inside the closed ring (odd number of edges to its right).
Crossings(p, ring) ==
    Cardinality({k \in 1 .. (Len(ring) - 1) :
        /\ (ring[k][2] > p[2]) # (ring[k + 1][2] > p[2])
        /\ Sign(CrossProd(ring[k], ring[k + 1], p))
               = (IF ring[k + 1][2] > ring[k][2] THEN 1 ELSE -1)})
Inside(p, ring) ==
    /\ \A k \in 1 .. (Len(ring) - 1) : ~OnSegment(ring[k], ring[k + 1], p)
    /\ Crossings(p, ring) % 2 = 1

\* Two rings share interior points: their edges cross, or a vertex of one is
\* strictly inside the other (which covers nesting).
Overlap(P, Q) ==
    \/ \E k \in 1 .. (Len(P) - 1), l \in 1 .. (Len(Q) - 1) :
           ProperCross(P[k], P[k + 1], Q[l], Q[l + 1])
    \/ \E k \in DOMAIN P : Inside(P[k], Q)
    \/ \E k \in DOMAIN Q : Inside(Q[k], P)

HasOverlap(a) ==
    \E k, l \in DOMAIN a.segmentation :
        k < l /\ Overlap(Unravel(a.segmentation[k]), Unravel(a.segmentation[l]))

\* C11 as stated: the category-level area is the area of the union of the
\* category's polygons, so an annotation two of whose polygons overlap or are
\* nested has an area strictly less than the sum of its areas.
C11_AreaIsUnionArea ==
    \A k \in DOMAIN annotations :
        HasOverlap(annotations[k]) => annotations[k].area < SeqSum(annotations[k].areas)

\* ---------------------------------------------------------------- C12
\* The background pixels of m that no path of edge-adjacent background pixels
\* joins to the border of the array: the union of the edge-connected
\* background components that hold no border pixel.
RECURSIVE EnclosedAmong(_, _)
EnclosedAmong(m, left) ==
    IF left = {} THEN {}
    ELSE LET p == CHOOSE q \in left : TRUE
             component == Flood(m, {p})
         IN (IF component \cap BorderPix(m) = {} THEN component ELSE {})
                \cup EnclosedAmong(m, left \ component)
Enclosed(m) == EnclosedAmong(m, Pix(m.h, m.w) \ m.fg)

\* The edge-connected foreground region of m that holds p.
Complement(m) == [m EXCEPT !.fg = Pix(m.h, m.w) \ m.fg]
RegionOf(m, p) == Flood(Complement(m), {p})

RECURSIVE CountRegions(_, _)
CountRegions(m, left) ==
    IF left = {} THEN 0
    ELSE LET p == CHOOSE q \in left : TRUE
         IN 1 + CountRegions(m, left \ RegionOf(m, p))
Regions(m) == CountRegions(m, m.fg)

\* C12: for every category the loop processes, the mask the contours are
\* traced from is the padded mask plus exactly its enclosed background pixels,
\* so no foreground pixel is lost and no enclosed hole is left; the tracer gives
\* one contour per connected foreground region, no contour has a vertex inside
\* another, and an emitted annotation has one polygon per region.
C12_HolesFilledBeforeTracing ==
    /\ IsCategory =>
           LET m == MaskedImage(img, SegColor, remove_salt)
               t == TracedMask(img, SegColor, remove_salt)
           IN /\ m.fg \subseteq t.fg
              /\ t.fg = m.fg \cup Enclosed(m)
              /\ Enclosed(t) = {}
              /\ \A clockwise \in BOOLEAN :
                     LET contours == find_contours(t, clockwise)
                     IN /\ Len(contours) = Regions(t)
                        /\ \A k, l \in DOMAIN contours :
                               k # l => \A v \in DOMAIN contours[k] :
                                           ~Inside(contours[k][v], contours[l])
    /\ \A k \in DOMAIN annotations :
           Len(annotations[k].segmentation)
               = Regions(TracedMask(img, annotations[k].color, remove_salt))

\* C12 witness: an annotation with a single polygon was built for a category
\* whose padded mask had an enclosed background pixel.
C12_Witness ==
    \E k \in DOMAIN annotations :
        /\ Enclosed(MaskedImage(img, annotations[k].color, remove_salt)) # {}
        /\ Len(annotations[k].segmentation) = 1

\* ---------------------------------------------------------------- C13
\* C13 as stated: an init call that raises InvalidProjectError or
\* InvalidAuthTokenError leaves the module state as it was, and after any init
\* call an initialized client holds the auth token, base URL and version of the
\* init call that fetched the stored project.
C13_FailedInitKeepsState ==
    [][op' = "init" =>
           /\ (outcome' \in {Raised("InvalidProjectError"), Raised("InvalidAuthTokenError")}
                   => UNCHANGED moduleState)
           /\ (_init_done' =>
                   /\ fetched_with' # None
                   /\ _auth_token' = fetched_with'.auth_token
                   /\ _base_url' = fetched_with'.base_url
                   /\ _version' = fetched_with'.version)]_vars

\* ---------------------------------------------------------------- C14
\* C14 as stated: an init call that returns normally leaves _init_done true,
\* and a guarded call that follows it does not raise
\* ClientNotInitializedError.
C14_InitReturnsInitialized ==
    [][/\ (op' = "init" /\ outcome'.status = "returned") => _init_done'
       /\ (op = "init" /\ outcome.status = "returned" /\ op' = "call")
              => outcome' # Raised("ClientNotInitializedError")]_vars

====
